---- MODULE Spec2Model ----
(***************************************************************************)
(* Model of scripts/develNet/createDataset.py: DatasetCreator and          *)
(* DatasetCreatorVis.                                                      *)
(*                                                                         *)
(* A point cloud (an (n * 4) numpy array) is modelled as a bag of grid     *)
(* positions: a function from Cells to the number of rows of the array     *)
(* that lie at that position.  Row order and intensity are not modelled;   *)
(* nothing in the file reads them.                                         *)
(* A python dict is a TLA+ function whose DOMAIN is the key set.  A value   *)
(* that may be None is a record with a present flag.  A call that raises   *)
(* is a result whose err field names the exception.                        *)
(* A density (a float, points per cubic metre) is the exact fraction       *)
(* [num, den] with den > 0; comparisons are done by cross multiplication.  *)
(***************************************************************************)
EXTENDS Integers, Sequences, FiniteSets, TLC

VARIABLES
    call,       \* the last direct call of one operation: its arguments and result
    prev,       \* the direct call before it
    cls,        \* class of the creator object: DatasetCreator or DatasetCreatorVis
    visualize,  \* DatasetCreatorVis.visualize
    disk,       \* dir_save: file name -> the metadata written to it
    pc,         \* position of main/run: "idle", "loop", "crashed"
    fileNo,     \* index into file_list of the record file being run (0-based)
    recordLen,  \* number of frames of that record file
    overwrite,  \* run's overwrite argument
    idx,        \* run's loop index i: the next frame of the file
    visits      \* history: one entry per frame the loop of run has reached

vars == <<call, prev, cls, visualize, disk, pc, fileNo, recordLen, overwrite, idx, visits>>

(* ------------------------------ bounds -------------------------------- *)

MaxRecords == 3    \* longest metadata list handed to filterMetadata directly
MaxBoxes == 2      \* most bounding boxes in one frame
MaxFrames == 2     \* most frames in one record file
MaxFiles == 2      \* most record files in file_list
MaxVisits == 3     \* most frames the program reaches in one execution

(* -------------------------- program constants ------------------------- *)

DefaultClusterThresh == 5
DefaultDensityThresh == 20

(* ------------------------------ helpers ------------------------------- *)

Abs(n) == IF n < 0 THEN 0 - n ELSE n

Min(S) == CHOOSE m \in S : \A n \in S : m <= n

Max(S) == CHOOSE m \in S : \A n \in S : m >= n

RECURSIVE SumOver(_, _)
SumOver(f, S) ==
    IF S = {} THEN 0
    ELSE LET c == CHOOSE c \in S : TRUE IN f[c] + SumOver(f, S \ {c})

Range(s) == {s[k] : k \in 1..Len(s)}

(* A fraction n/d (d > 0) is strictly greater than the integer t. *)
GT(q, t) == q.num > t * q.den

(* A fraction is strictly smaller than another (both denominators > 0). *)
FracLess(p, q) == p.num * q.den < q.num * p.den

(* --------------------------- data model ------------------------------- *)

(* Grid positions <<x, y, z>> a point can lie at; z = 0 is the ground. *)
Cells == {<<x, 0, z>> : x \in 0..2, z \in 0..1}

EmptyCloud == [c \in Cells |-> 0]

(* len(pcl): the number of rows of the array. *)
Len_pcl(pcl) == SumOver(pcl, Cells)

(* A cluster-or-None value: clusterByBBox stores either the array or None. *)
NoneCluster == [present |-> FALSE]

Present(pts) == [present |-> TRUE, pts |-> pts]

IsNone(c) == ~c.present

EmptyDict == <<>>

Put(d, k, v) == [x \in (DOMAIN d) \cup {k} |-> IF x = k THEN v ELSE d[x]]

BoxVolume(b) == b.dims[1] * b.dims[2] * b.dims[3]

(* ------------------ helpers of modules.helperFunctions ---------------- *)

(* remove_groundplane: a height band; the rows at ground height are removed. *)
remove_groundplane(pcl) == [c \in Cells |-> IF c[3] = 0 THEN 0 ELSE pcl[c]]

(* Membership of a position in an oriented box: translate to the box frame by
   centre and heading (quarter turns about z), then test each axis against the
   half dimension. *)
InBox(p, b) ==
    LET dx == p[1] - b.center[1]
        dy == p[2] - b.center[2]
        dz == p[3] - b.center[3]
        lx == IF b.heading = 0 THEN dx ELSE dy
        ly == IF b.heading = 0 THEN dy ELSE 0 - dx
    IN  /\ 2 * Abs(lx) <= b.dims[1]
        /\ 2 * Abs(ly) <= b.dims[2]
        /\ 2 * Abs(dz) <= b.dims[3]

get_pts_in_bbox(pcl, label) == [c \in Cells |-> IF InBox(c, label) THEN pcl[c] ELSE 0]

(* extract_cluster_parameters(np_cluster, display=False): eight parameters
   computed from the cluster's rows alone (the call passes nothing else).
   Parameter 0 is the row count, 1..3 the extents per axis in whole cells,
   4..6 the lower corner, 7 the density: rows per unit of the volume the
   cluster's own extent spans.  An empty array has no extent: ValueError. *)
extract_cluster_parameters(np_cluster) ==
    LET occ == {c \in Cells : np_cluster[c] > 0}
        lo(a) == Min({c[a] : c \in occ})
        hi(a) == Max({c[a] : c \in occ})
        ext(a) == hi(a) - lo(a) + 1
        n == Len_pcl(np_cluster)
    IN  IF occ = {} THEN [err |-> "ValueError"]
        ELSE [err |-> "none",
              value |-> [k \in 0..7 |->
                            CASE k = 0 -> n
                              [] k \in 1..3 -> ext(k)
                              [] k \in 4..6 -> lo(k - 3)
                              [] OTHER -> [num |-> n, den |-> ext(1) * ext(2) * ext(3)]]]

(* ------------------------- DatasetCreator ----------------------------- *)

(* filterPcl *)
filterPcl(pcl) == remove_groundplane(pcl)

(* Mutant of ThresholdCluster: the size test is strict. *)
ThresholdCluster_strict(cluster, thresh) ==
    IF Len_pcl(cluster) > thresh THEN Present(cluster) ELSE NoneCluster

(* clusterByBBox, lines 108-111: the value stored for one box. *)
ThresholdCluster(cluster, thresh) ==
    IF Len_pcl(cluster) >= thresh THEN Present(cluster) ELSE NoneCluster

RECURSIVE ClusterLoop(_, _, _, _, _)
ClusterLoop(pcl, bboxes, thresh, i, obj_pcls) ==
    IF i > Len(bboxes) THEN obj_pcls
    ELSE LET label == bboxes[i]
             cluster == get_pts_in_bbox(pcl, label)
         IN  ClusterLoop(pcl, bboxes, thresh, i + 1,
                         Put(obj_pcls, label.id, ThresholdCluster(cluster, thresh)))

clusterByBBox(pcl, bboxes, thresh) == ClusterLoop(pcl, bboxes, thresh, 1, EmptyDict)

(* Mutant of computeClusterMetadata: None is taken for an empty cluster and a
   record of zero rows is returned for it. *)
computeClusterMetadata_silent(cluster, bbox, frame_id) ==
    IF IsNone(cluster)
    THEN [err |-> "none",
          features |-> [cluster_id |-> bbox.id, frame_id |-> frame_id,
                        cls |-> bbox.type, cnt |-> 0,
                        parameters |-> [k \in 0..7 |->
                                          IF k = 7 THEN [num |-> 0, den |-> 1] ELSE 0]]]
    ELSE LET p == extract_cluster_parameters(cluster.pts)
         IN  IF p.err # "none" THEN [err |-> p.err]
             ELSE [err |-> "none",
                   features |-> [cluster_id |-> bbox.id,
                                 frame_id |-> frame_id,
                                 cls |-> bbox.type,
                                 cnt |-> Len_pcl(cluster.pts),
                                 parameters |-> p.value]]

(* computeClusterMetadata: raises on None, else builds the Features object. *)
computeClusterMetadata(cluster, bbox, frame_id) ==
    IF IsNone(cluster) THEN [err |-> "TypeError"]
    ELSE LET p == extract_cluster_parameters(cluster.pts)
         IN  IF p.err # "none" THEN [err |-> p.err]
             ELSE [err |-> "none",
                   features |-> [cluster_id |-> bbox.id,
                                 frame_id |-> frame_id,
                                 cls |-> bbox.type,
                                 cnt |-> Len_pcl(cluster.pts),
                                 parameters |-> p.value]]

(* Mutant of PassesDensity: a record exactly at the threshold is kept. *)
PassesDensity_orEqual(c, thresh) == c.parameters[7].num >= thresh * c.parameters[7].den

(* filterMetadata, line 176: the test that keeps a record. *)
PassesDensity(c, thresh) == GT(c.parameters[7], thresh)

RECURSIVE FilterLoop(_, _, _, _, _, _)
FilterLoop(metadata, clusters, thresh, i, filtered_metadata, filtered_clusters) ==
    IF i > Len(metadata)
    THEN [err |-> "none",
          filtered_metadata |-> filtered_metadata,
          filtered_clusters |-> filtered_clusters]
    ELSE LET c == metadata[i]
         IN  IF PassesDensity(c, thresh)
             THEN IF c.cluster_id \notin DOMAIN clusters
                  THEN [err |-> "KeyError"]
                  ELSE FilterLoop(metadata, clusters, thresh, i + 1,
                                  Append(filtered_metadata, c),
                                  Put(filtered_clusters, c.cluster_id,
                                      clusters[c.cluster_id]))
             ELSE FilterLoop(metadata, clusters, thresh, i + 1,
                             filtered_metadata, filtered_clusters)

(* Mutant of filterMetadata: the input mapping is returned unreduced. *)
filterMetadata_unreduced(metadata, clusters, thresh) ==
    LET r == FilterLoop(metadata, clusters, thresh, 1, <<>>, EmptyDict)
    IN  IF r.err # "none" THEN r ELSE [r EXCEPT !.filtered_clusters = clusters]

filterMetadata(metadata, clusters, thresh) ==
    FilterLoop(metadata, clusters, thresh, 1, <<>>, EmptyDict)

(* saveClusterMetadata: json.dump to '<dir_save>/<name>.json', opened with 'w'. *)
FileName(name) == name \o ".json"

saveClusterMetadata(d, metadata, name) == Put(d, FileName(name), metadata)

(* checkDataFile: os.path.isfile of the frame's file. *)
checkDataFile(d, name) == FileName(name) \in DOMAIN d

(* Mutant of FrameName: the index is left out of the name. *)
FrameName_noIndex(context_name, i) == context_name

(* run, line 268: frame.context.name = '%s-%i' % (frame.context.name, i) *)
FrameName(context_name, i) == context_name \o "-" \o ToString(i)

(* The extractor applied to the boxes in order; the first exception ends the
   comprehension.  calls logs every invocation of computeClusterMetadata. *)
RECURSIVE ExtractLoop(_, _, _, _, _, _)
ExtractLoop(clusters, boxes, frame_id, i, metadata, calls) ==
    IF i > Len(boxes) THEN [err |-> "none", metadata |-> metadata, calls |-> calls]
    ELSE LET b == boxes[i]
             r == computeClusterMetadata(clusters[b.id], b, frame_id)
             log == Append(calls, [cluster |-> clusters[b.id], bbox |-> b])
         IN  IF r.err # "none" THEN [err |-> r.err, metadata |-> metadata, calls |-> log]
             ELSE ExtractLoop(clusters, boxes, frame_id, i + 1,
                              Append(metadata, r.features), log)

(* Mutant of BaseSelectedBoxes: the comprehension has no None test. *)
BaseSelectedBoxes_all(clusters, bboxes) == bboxes

(* DatasetCreator.parseFrame, lines 217-218: the boxes the comprehension keeps. *)
BaseSelectedBoxes(clusters, bboxes) ==
    LET NotNone(b) == ~IsNone(clusters[b.id]) IN SelectSeq(bboxes, NotNone)

(* DatasetCreator.parseFrame, line 220: self.filterMetadata(metadata) leaves out
   the required argument clusters, so the call raises TypeError. *)
filterMetadataWithoutClusters(metadata) == [err |-> "TypeError"]

(* DatasetCreator.parseFrame.  saved: saveClusterMetadata was reached. *)
BaseParseFrame(frame, frame_id) ==
    LET pcl == filterPcl(frame.pcl)
        clusters == clusterByBBox(pcl, frame.bboxes, DefaultClusterThresh)
        ex == ExtractLoop(clusters, BaseSelectedBoxes(clusters, frame.bboxes),
                          frame_id, 1, <<>>, <<>>)
        f == filterMetadataWithoutClusters(ex.metadata)
    IN  IF ex.err # "none"
        THEN [err |-> ex.err, calls |-> ex.calls, filtered |-> FALSE, saved |-> FALSE]
        ELSE IF f.err # "none"
        THEN [err |-> f.err, calls |-> ex.calls, filtered |-> FALSE, saved |-> FALSE]
        ELSE [err |-> "none", calls |-> ex.calls, filtered |-> TRUE, saved |-> TRUE,
              metadata |-> ex.metadata, valid_clusters |-> clusters,
              sub_metadata |-> f.filtered_metadata, sub_clusters |-> f.filtered_clusters]

(* DatasetCreatorVis.parseFrame, lines 347-352. *)
VisValidBBoxes(clusters, bboxes) ==
    LET NotNone(b) == ~IsNone(clusters[b.id]) IN SelectSeq(bboxes, NotNone)

VisValidClusters(clusters, bboxes) ==
    LET ids == {b.id : b \in {x \in Range(bboxes) : ~IsNone(clusters[x.id])}}
    IN  [k \in ids |-> clusters[k]]

(* DatasetCreatorVis.parseFrame, lines 380-386: np.concatenate of no arrays
   raises ValueError; the try around it is commented out. *)
PublishFiltered(v, sub_clusters) ==
    IF v = 4 /\ DOMAIN sub_clusters = {} THEN "ValueError" ELSE "none"

(* DatasetCreatorVis.parseFrame with self.visualize = v. The publishes for
   v = 1, 2 and the guarded one for v = 3 change nothing the program reads. *)
VisParseFrame(frame, frame_id, v) ==
    LET pcl == filterPcl(frame.pcl)
        clusters == clusterByBBox(pcl, frame.bboxes, DefaultClusterThresh)
        valid_clusters == VisValidClusters(clusters, frame.bboxes)
        valid_bboxes == VisValidBBoxes(clusters, frame.bboxes)
        ex == ExtractLoop(valid_clusters, valid_bboxes, frame_id, 1, <<>>, <<>>)
        f == filterMetadata(ex.metadata, valid_clusters, DefaultDensityThresh)
    IN  IF ex.err # "none"
        THEN [err |-> ex.err, calls |-> ex.calls, filtered |-> FALSE, saved |-> FALSE]
        ELSE IF f.err # "none"
        THEN [err |-> f.err, calls |-> ex.calls, filtered |-> FALSE, saved |-> FALSE]
        ELSE IF PublishFiltered(v, f.filtered_clusters) # "none"
        THEN [err |-> PublishFiltered(v, f.filtered_clusters), calls |-> ex.calls,
              filtered |-> TRUE, saved |-> FALSE,
              metadata |-> ex.metadata, valid_clusters |-> valid_clusters,
              sub_metadata |-> f.filtered_metadata, sub_clusters |-> f.filtered_clusters]
        ELSE [err |-> "none", calls |-> ex.calls, filtered |-> TRUE, saved |-> TRUE,
              metadata |-> ex.metadata, valid_clusters |-> valid_clusters,
              sub_metadata |-> f.filtered_metadata, sub_clusters |-> f.filtered_clusters]

(* parseFrame as dispatched on the object's class. *)
parseFrame(c, frame, frame_id, v) ==
    IF c = "DatasetCreator" THEN BaseParseFrame(frame, frame_id)
    ELSE VisParseFrame(frame, frame_id, v)

(* ------------------------------ inputs -------------------------------- *)

Classes == {"DatasetCreator", "DatasetCreatorVis"}

(* Values the /visualize parameter can hold. *)
VisualizeValues == 0..4

(* The values of it drawn while record files are run: no display, and the
   display of the density filtered clusters. *)
RunVisualizeValues == {0, 4}

(* Rows per position of an input cloud. *)
CloudCounts == {0, 2, 5, 100, 200}

(* Input clouds: any count at each position above the ground, and a ground
   plane that is either empty or holds five rows at every ground position. *)
Clouds ==
    {[c \in Cells |-> IF c[3] = 0 THEN g ELSE f[c[1]]] :
        f \in [0..2 -> CloudCounts], g \in {0, 5}}

(* Labelled boxes.  BoxA (2 x 2 x 2, volume 8) holds every position; BoxB holds
   only <<0,0,1>>; BoxC, turned a quarter, holds <<1,0,1>> and <<2,0,1>>; BoxD
   holds only <<2,0,1>>. *)
BoxA == [id |-> "a", type |-> 1, center |-> <<1, 0, 1>>, dims |-> <<2, 2, 2>>, heading |-> 0]

BoxB == [id |-> "b", type |-> 2, center |-> <<0, 0, 1>>, dims |-> <<1, 1, 1>>, heading |-> 0]

BoxC == [id |-> "c", type |-> 2, center |-> <<2, 0, 1>>, dims |-> <<1, 3, 1>>, heading |-> 1]

BoxD == [id |-> "d", type |-> 4, center |-> <<2, 0, 1>>, dims |-> <<1, 1, 1>>, heading |-> 0]

(* Malformed labels: zero and negative volume. *)
BoxZero == [id |-> "z", type |-> 1, center |-> <<1, 0, 1>>, dims |-> <<0, 2, 2>>, heading |-> 0]

BoxNeg == [id |-> "n", type |-> 1, center |-> <<1, 0, 1>>, dims |-> <<0 - 1, 2, 2>>, heading |-> 0]

BoxCatalogue == {BoxA, BoxB, BoxC, BoxD}

(* Box lists of a frame: at most MaxBoxes boxes, ids unique within the frame. *)
BoxLists ==
    {bs \in UNION {[1..n -> BoxCatalogue] : n \in 0..MaxBoxes} :
        \A i, j \in 1..Len(bs) : i # j => bs[i].id # bs[j].id}

NoCall == [op |-> "none", done |-> FALSE]

(* Context names of frames; one of them ends like an index suffix. *)
ContextNames == {"segA", "segA-1"}

(* Frames of a record file: 100 rows at one position (kept by the density
   filter), or 5 rows at each end of the box (dropped by it). *)
RunClouds ==
    {[c \in Cells |-> IF c = <<0, 0, 1>> THEN 100 ELSE 0],
     [c \in Cells |-> IF c \in {<<0, 0, 1>>, <<2, 0, 1>>} THEN 5 ELSE 0]}

(* The state the run variables hold while only direct calls are made. *)
RunIdle ==
    /\ cls = "DatasetCreatorVis"
    /\ visualize = 0
    /\ disk = EmptyDict
    /\ pc = "idle"
    /\ fileNo = 0
    /\ recordLen = 0
    /\ overwrite = FALSE
    /\ idx = 0
    /\ visits = <<>>

runVars == <<cls, visualize, disk, pc, fileNo, recordLen, overwrite, idx, visits>>

(* ---------------------- main and DatasetCreator.run -------------------- *)

Init ==
    /\ call = NoCall
    /\ prev = NoCall
    /\ cls \in Classes
    /\ visualize \in (IF cls = "DatasetCreatorVis" THEN {0, 2} ELSE {0})
    /\ disk \in {EmptyDict, saveClusterMetadata(EmptyDict, <<>>, FrameName("segA", 0))}
    /\ pc = "idle"
    /\ fileNo = 0
    /\ recordLen = 0
    /\ overwrite = FALSE
    /\ idx = 0
    /\ visits = <<>>

(* run is entered for the next file of file_list. *)
RunStart ==
    /\ pc = "idle"
    /\ fileNo < MaxFiles
    /\ \E n \in 0..MaxFrames, ow \in BOOLEAN :
        /\ recordLen' = n
        /\ overwrite' = ow
    /\ idx' = 0
    /\ pc' = "loop"
    /\ UNCHANGED <<call, prev, cls, visualize, disk, fileNo, visits>>

(* One iteration of run's loop, lines 264-287. *)
RunFrame ==
    /\ pc = "loop"
    /\ idx < recordLen
    /\ Len(visits) < MaxVisits
    /\ \E ctx \in ContextNames, pcl \in RunClouds,
          v \in (IF cls = "DatasetCreatorVis" THEN RunVisualizeValues ELSE {visualize}) :
        LET name == FrameName(ctx, idx)
            frame == [name |-> name, pcl |-> pcl, bboxes |-> <<BoxA>>]
            existed == checkDataFile(disk, name)
            parsed == ~(existed /\ ~overwrite)
            res == parseFrame(cls, frame, idx, v)
            entry == [file |-> fileNo, i |-> idx, ctx |-> ctx, name |-> name,
                      existed |-> existed, overwrite |-> overwrite,
                      parsed |-> parsed,
                      saved |-> parsed /\ res.saved,
                      err |-> IF parsed THEN res.err ELSE "none"]
        IN  /\ visits' = Append(visits, entry)
            /\ IF ~parsed
               THEN /\ idx' = idx + 1
                    /\ UNCHANGED <<visualize, disk, pc>>
               ELSE /\ visualize' = v
                    /\ disk' = IF res.saved
                               THEN saveClusterMetadata(disk, res.sub_metadata, name)
                               ELSE disk
                    /\ pc' = IF res.err = "none" THEN "loop" ELSE "crashed"
                    /\ idx' = IF res.err = "none" THEN idx + 1 ELSE idx
    /\ UNCHANGED <<call, prev, cls, fileNo, recordLen, overwrite>>

(* run returns after the last frame; main goes on to the next file. *)
RunReturn ==
    /\ pc = "loop"
    /\ idx = recordLen
    /\ pc' = "idle"
    /\ fileNo' = fileNo + 1
    /\ UNCHANGED <<call, prev, cls, visualize, disk, recordLen, overwrite, idx, visits>>

Next == RunStart \/ RunFrame \/ RunReturn

Spec == Init /\ [][Next]_vars

(* ------------------- direct calls of filterMetadata -------------------- *)

Fraction(n, d) == [num |-> n, den |-> d]

(* Densities around the thresholds: below, equal (as 20/1 and 40/2), above. *)
FilterDensities ==
    {Fraction(19, 1), Fraction(20, 1), Fraction(40, 2), Fraction(41, 2), Fraction(21, 1), Fraction(22, 1)}

FilterFeatures ==
    {[cluster_id |-> id, frame_id |-> 0, cls |-> 1, cnt |-> d.num,
      parameters |-> [k \in 0..7 |-> IF k = 7 THEN d ELSE 0]] :
        id \in {"a", "b"}, d \in FilterDensities}

FilterClusterMaps ==
    {[k \in ids |-> Present([c \in Cells |-> IF c = <<0, 0, 1>> /\ k = "a" THEN 5 ELSE 0])] :
        ids \in {{"a", "b"}, {"a"}}}

InitFilter ==
    /\ call \in {[op |-> "filterMetadata", done |-> FALSE,
                  metadata |-> m, clusters |-> cl, thresh |-> t] :
                    m \in UNION {[1..n -> FilterFeatures] : n \in 0..MaxRecords},
                    cl \in FilterClusterMaps,
                    t \in {DefaultDensityThresh, DefaultDensityThresh + 1}}
    /\ prev = NoCall
    /\ RunIdle

CallFilterMetadata ==
    /\ call.op = "filterMetadata"
    /\ ~call.done
    /\ call' = [call EXCEPT !.done = TRUE] @@
               [res |-> filterMetadata(call.metadata, call.clusters, call.thresh)]
    /\ UNCHANGED <<prev, runVars>>

NextFilter == CallFilterMetadata

SpecFilter == InitFilter /\ [][NextFilter]_vars

(* ---------------- direct calls of computeClusterMetadata --------------- *)

ExtractClusters ==
    {NoneCluster,
     Present(EmptyCloud),
     Present([c \in Cells |-> IF c = <<0, 0, 1>> THEN 5 ELSE 0]),
     Present([c \in Cells |-> IF c \in {<<0, 0, 1>>, <<2, 0, 1>>} THEN 5 ELSE 0]),
     Present([c \in Cells |-> IF c = <<1, 0, 1>> THEN 100 ELSE 0])}

ExtractBoxes == {BoxA, BoxB, BoxC, BoxZero, BoxNeg}

InitExtract ==
    /\ call = NoCall
    /\ prev = NoCall
    /\ RunIdle

CallComputeClusterMetadata ==
    /\ \E cluster \in ExtractClusters, bbox \in ExtractBoxes, frame_id \in 0..1 :
        call' = [op |-> "computeClusterMetadata", done |-> TRUE,
                 cluster |-> cluster, bbox |-> bbox, frame_id |-> frame_id,
                 res |-> computeClusterMetadata(cluster, bbox, frame_id)]
    /\ prev' = call
    /\ UNCHANGED runVars

NextExtract == CallComputeClusterMetadata

SpecExtract == InitExtract /\ [][NextExtract]_vars

(* -------------------- direct calls of clusterByBBox -------------------- *)

InitCluster ==
    /\ call \in {[op |-> "clusterByBBox", done |-> FALSE,
                  pcl |-> pcl, bboxes |-> bs, thresh |-> t] :
                    pcl \in Clouds, bs \in BoxLists, t \in {1, DefaultClusterThresh}}
    /\ prev = NoCall
    /\ RunIdle

CallClusterByBBox ==
    /\ call.op = "clusterByBBox"
    /\ ~call.done
    /\ call' = [call EXCEPT !.done = TRUE] @@
               [res |-> clusterByBBox(call.pcl, call.bboxes, call.thresh)]
    /\ UNCHANGED <<prev, runVars>>

NextCluster == CallClusterByBBox

SpecCluster == InitCluster /\ [][NextCluster]_vars

(* ---------------------- direct calls of parseFrame --------------------- *)

InitFrame ==
    /\ cls \in Classes
    /\ visualize = 0
    /\ call \in {[op |-> "parseFrame", done |-> FALSE,
                  frame |-> [name |-> FrameName("segA", 0), pcl |-> pcl, bboxes |-> bs],
                  frame_id |-> 0, v |-> v] :
                    pcl \in Clouds, bs \in BoxLists,
                    v \in (IF cls = "DatasetCreatorVis" THEN VisualizeValues ELSE {0})}
    /\ prev = NoCall
    /\ disk = EmptyDict
    /\ pc = "idle"
    /\ fileNo = 0
    /\ recordLen = 0
    /\ overwrite = FALSE
    /\ idx = 0
    /\ visits = <<>>

CallParseFrame ==
    /\ call.op = "parseFrame"
    /\ ~call.done
    /\ LET res == parseFrame(cls, call.frame, call.frame_id, call.v)
       IN  /\ call' = [call EXCEPT !.done = TRUE] @@ [res |-> res]
           /\ disk' = IF res.saved
                      THEN saveClusterMetadata(disk, res.sub_metadata, call.frame.name)
                      ELSE disk
    /\ visualize' = IF cls = "DatasetCreatorVis" THEN call.v ELSE visualize
    /\ UNCHANGED <<prev, cls, pc, fileNo, recordLen, overwrite, idx, visits>>

NextFrame == CallParseFrame

SpecFrame == InitFrame /\ [][NextFrame]_vars

(* ============================== claims ================================ *)

FilterDone == call.op = "filterMetadata" /\ call.done

(* The records of a list whose parameter 7 is strictly above t, in order. *)
DenseRecords(metadata, t) ==
    LET Dense(c) == c.parameters[7].num > t * c.parameters[7].den
    IN  SelectSeq(metadata, Dense)

(* C1: when the cluster mapping has an entry for every record's cluster_id,
   filterMetadata returns as filtered_metadata exactly the input records whose
   parameters[7] is strictly greater than thresh, in input order. *)
C1_FilterKeepsExactlyDense ==
    (FilterDone /\ \A k \in 1..Len(call.metadata) :
                        call.metadata[k].cluster_id \in DOMAIN call.clusters)
    => /\ call.res.err = "none"
       /\ call.res.filtered_metadata = DenseRecords(call.metadata, call.thresh)

(* C1 witness: a call that drops a record exactly at the threshold and one
   below it, and keeps one above it. *)
C1_Witness ==
    /\ FilterDone
    /\ call.res.err = "none"
    /\ Len(call.metadata) = 3
    /\ Len(call.res.filtered_metadata) = 1
    /\ \E k \in 1..3 : call.metadata[k].parameters[7] = Fraction(40, 2)
    /\ \E k \in 1..3 : call.metadata[k].parameters[7] = Fraction(19, 1)

FrameDone == call.op = "parseFrame" /\ call.done

(* Rows of the ground-filtered cloud of the frame that lie inside box b. *)
RowsInBox(frame, b) ==
    SumOver([c \in Cells |-> IF c[3] # 0 /\ InBox(c, b) THEN frame.pcl[c] ELSE 0], Cells)

CallsFor(calls, b) == Cardinality({k \in 1..Len(calls) : calls[k].bbox = b})

(* C2: in a run of parseFrame the extractor is never invoked with an absent
   cluster, and it is invoked exactly once for each box holding at least
   min_points ground-filtered rows and never for a box holding fewer. *)
C2_ExtractorOnlyOnPresent ==
    FrameDone =>
        /\ \A k \in 1..Len(call.res.calls) : ~IsNone(call.res.calls[k].cluster)
        /\ \A k \in 1..Len(call.frame.bboxes) :
              LET b == call.frame.bboxes[k]
              IN  CallsFor(call.res.calls, b) =
                    (IF RowsInBox(call.frame, b) >= DefaultClusterThresh THEN 1 ELSE 0)

(* C2 witness: a frame of two boxes, one skipped and one extracted. *)
C2_Witness ==
    /\ FrameDone
    /\ Len(call.frame.bboxes) = 2
    /\ Len(call.res.calls) = 1
    /\ \E k \in 1..2 : LET n == RowsInBox(call.frame, call.frame.bboxes[k])
                       IN  n > 0 /\ n < DefaultClusterThresh

ExtractDone == call.op = "computeClusterMetadata" /\ call.done

(* The exceptions python raises for a bad argument. *)
InvalidArgument == {"TypeError", "ValueError"}

(* C3: computeClusterMetadata on None or on a cluster of zero rows raises,
   and no call returns a record whose cnt is 0. *)
C3_AbsentOrEmptyRaises ==
    ExtractDone =>
        /\ (IsNone(call.cluster) \/ Len_pcl(call.cluster.pts) = 0)
              => call.res.err \in InvalidArgument
        /\ call.res.err = "none" => call.res.features.cnt # 0

(* C3 witness: both kinds of call have been made, None and then empty. *)
C3_Witness ==
    /\ ExtractDone
    /\ prev.op = "computeClusterMetadata"
    /\ IsNone(prev.cluster)
    /\ ~IsNone(call.cluster)
    /\ Len_pcl(call.cluster.pts) = 0
    /\ call.res.err = "ValueError"
    /\ prev.res.err = "TypeError"

(* C4: for a frame with a single box, parseFrame saves a record for the box if
   and only if the number n of ground-filtered rows in the box is at least
   min_points and n / box volume is above min_density, and then cnt = n. *)
C4_RecordIffCountAndBoxDensity ==
    (FrameDone /\ Len(call.frame.bboxes) = 1) =>
        LET b == call.frame.bboxes[1]
            n == RowsInBox(call.frame, b)
            expected == n >= DefaultClusterThresh /\ n > DefaultDensityThresh * BoxVolume(b)
        IN  /\ call.res.saved
            /\ Len(call.res.sub_metadata) = (IF expected THEN 1 ELSE 0)
            /\ expected => call.res.sub_metadata[1].cnt = n

(* C5: a box of zero or negative volume is reported as an exception and no
   record is returned for it. *)
C5_MalformedBoxRaises ==
    (ExtractDone /\ BoxVolume(call.bbox) <= 0) => call.res.err \in InvalidArgument

(* C6: for one cluster, a box of strictly larger volume gives a strictly
   smaller parameters[7]. *)
C6_DensityDecreasesWithBoxVolume ==
    (/\ ExtractDone
     /\ prev.op = "computeClusterMetadata"
     /\ prev.cluster = call.cluster
     /\ prev.res.err = "none"
     /\ call.res.err = "none"
     /\ BoxVolume(prev.bbox) > 0
     /\ BoxVolume(call.bbox) > BoxVolume(prev.bbox))
    => FracLess(call.res.features.parameters[7], prev.res.features.parameters[7])

ClusterDone == call.op = "clusterByBBox" /\ call.done

Overlap(a, b) == \E c \in Cells : InBox(c, a) /\ InBox(c, b)

NonOverlapping(bboxes) ==
    \A i, j \in 1..Len(bboxes) : i # j => ~Overlap(bboxes[i], bboxes[j])

(* Rows at position c summed over the non-absent clusters of a mapping. *)
RowsInClusters(obj_pcls, c) ==
    SumOver([k \in DOMAIN obj_pcls |->
                IF IsNone(obj_pcls[k]) THEN 0 ELSE obj_pcls[k].pts[c]],
            DOMAIN obj_pcls)

RowsOfCloudInBox(pcl, b) ==
    SumOver([c \in Cells |-> IF InBox(c, b) THEN pcl[c] ELSE 0], Cells)

(* C7 as stated: for non-overlapping boxes the non-absent clusters together
   hold every row that lies in at least one box, each exactly once. *)
C7_ClustersPartitionBoxedPoints ==
    (ClusterDone /\ NonOverlapping(call.bboxes)) =>
        \A c \in Cells :
            RowsInClusters(call.res, c) =
                (IF \E b \in Range(call.bboxes) : InBox(c, b) THEN call.pcl[c] ELSE 0)

(* C7 amended: for non-overlapping boxes the non-absent clusters together
   hold, each exactly once, the rows that lie in a box holding at least
   thresh rows; the rows of a box holding fewer are in no cluster. *)
C7_ClustersPartitionPointsOfLargeBoxes ==
    (ClusterDone /\ NonOverlapping(call.bboxes)) =>
        \A c \in Cells :
            RowsInClusters(call.res, c) =
                (IF \E b \in Range(call.bboxes) :
                        InBox(c, b) /\ RowsOfCloudInBox(call.pcl, b) >= call.thresh
                 THEN call.pcl[c] ELSE 0)

(* C7 witness: two disjoint boxes, one kept with exactly thresh rows and one
   absent although rows lie in it. *)
C7_Witness ==
    /\ ClusterDone
    /\ NonOverlapping(call.bboxes)
    /\ Len(call.bboxes) = 2
    /\ \E i, j \in 1..2 :
        /\ ~IsNone(call.res[call.bboxes[i].id])
        /\ RowsOfCloudInBox(call.pcl, call.bboxes[i]) = call.thresh
        /\ IsNone(call.res[call.bboxes[j].id])
        /\ RowsOfCloudInBox(call.pcl, call.bboxes[j]) > 0

RecordIds(metadata) == {metadata[k].cluster_id : k \in 1..Len(metadata)}

(* C8: after the quality filter in parseFrame, the cluster_ids of the kept
   records are the keys of the kept clusters, each key maps to the cluster it
   had in the input mapping, each kept cluster_id is the id of exactly one box
   of the frame, and there are as many records as kept clusters. *)
C8_FilteredIdsMatch ==
    (FrameDone /\ call.res.filtered) =>
        /\ RecordIds(call.res.sub_metadata) = DOMAIN call.res.sub_clusters
        /\ \A id \in DOMAIN call.res.sub_clusters :
              /\ id \in DOMAIN call.res.valid_clusters
              /\ call.res.sub_clusters[id] = call.res.valid_clusters[id]
        /\ \A id \in RecordIds(call.res.sub_metadata) :
              Cardinality({k \in 1..Len(call.frame.bboxes) :
                              call.frame.bboxes[k].id = id}) = 1
        /\ Len(call.res.sub_metadata) = Cardinality(DOMAIN call.res.sub_clusters)

(* C8 witness: a frame of two boxes with present clusters, one kept by the
   filter and one dropped. *)
C8_Witness ==
    /\ FrameDone
    /\ call.res.filtered
    /\ Len(call.res.metadata) = 2
    /\ Len(call.res.sub_metadata) = 1
    /\ Cardinality(DOMAIN call.res.valid_clusters) = 2

Saves == {k \in 1..Len(visits) : visits[k].saved}

(* C9 as stated: no two distinct frames are saved under the same name. *)
C9_SaveNamesDistinct ==
    \A j, k \in Saves : j # k => visits[j].name # visits[k].name

(* C9 amended: two distinct frames are saved under the same name only if they
   come from different record files and have the same context name and the
   same index, and then the later run has overwrite set; frames of one file
   are always saved under distinct names. *)
C9_SameNameOnlyAcrossFiles ==
    \A j, k \in Saves :
        (j < k /\ visits[j].name = visits[k].name) =>
            /\ visits[j].file # visits[k].file
            /\ visits[j].ctx = visits[k].ctx
            /\ visits[j].i = visits[k].i
            /\ visits[k].overwrite

(* C9 witness: two frames of one file with the same context name were saved,
   and a frame of a later file was saved under the name of an earlier one. *)
C9_Witness ==
    /\ \E j, k \in Saves :
        /\ j # k
        /\ visits[j].file = visits[k].file
        /\ visits[j].ctx = visits[k].ctx
    /\ \E j, k \in Saves : j < k /\ visits[j].name = visits[k].name

(* C10: every frame the loop reaches is parsed and saved if and only if
   overwrite is set or no file existed for its name when it was reached;
   frames are reached in file order; and once run has returned, every frame
   of the file has a saved file. *)
C10_ParsedAndSavedIffNeeded ==
    /\ \A k \in 1..Len(visits) :
          (visits[k].parsed /\ visits[k].saved)
              <=> (visits[k].overwrite \/ ~visits[k].existed)
    /\ \A j, k \in 1..Len(visits) :
          (j < k /\ visits[j].file = visits[k].file) => visits[j].i < visits[k].i
    /\ \A k \in 1..Len(visits) :
          (pc = "idle" \/ visits[k].file < fileNo)
              => checkDataFile(disk, visits[k].name)

====
